---- MODULE Spec2Model ----
(***************************************************************************)
(* A model of contribute.py (Daily Open Source Contributor).               *)
(*                                                                         *)
(* The program is one sequential script: get_github_client, then           *)
(* find_good_issues, analyze_and_comment and save_contribution_log, wired  *)
(* by main.  Each function is modelled as a small-step state machine whose *)
(* program counter is pc (lpc[p] for the logger, which is also studied     *)
(* with two overlapping processes).  The GitHub API and the file system    *)
(* are the environment: every call into them draws its outcome (a result   *)
(* or an exception) nondeterministically.                                  *)
(*                                                                         *)
(* Strings are TLA+ strings; CharsOf gives the characters of the label     *)
(* strings, for the substring test.  An issue record keeps the fields      *)
(* repo, number and label; title, url and body are copied from the API     *)
(* response and no property below reads them.  The console is the set of   *)
(* the kinds of message printed so far, of those that tell how a run went: *)
(* the progress lines (banner, "Searching ...", the errors the finder      *)
(* skips) are left out.                                                    *)
(***************************************************************************)
EXTENDS Integers, Sequences, FiniteSets, TLC

(***************************************************************************)
(* Bounds of the model.                                                    *)
(***************************************************************************)
NumRepos == 2        \* how many of the target repositories are searched
NumLabels == 2       \* how many of the labels are searched
MaxNumber == 2       \* issue numbers are 1..MaxNumber
MaxMaxIssues == 3    \* find_good_issues is tried with max_issues in 0..MaxMaxIssues
MaxCalls == 2        \* how often a function is called again on the same state
MaxComments == 2     \* other users stop commenting at this many comments

(***************************************************************************)
(* Program constants.                                                      *)
(***************************************************************************)
AllRepos ==
  << "apache/airflow", "apache/spark", "dbt-labs/dbt-core",
     "tensorflow/tensorflow", "pytorch/pytorch", "pandas-dev/pandas",
     "scikit-learn/scikit-learn", "huggingface/transformers", "mlflow/mlflow",
     "ray-project/ray", "dagster-io/dagster", "prefecthq/prefect",
     "great-expectations/great_expectations" >>

AllLabels ==
  << "good first issue", "documentation", "help wanted", "beginner", "easy" >>

Min(a, b) == IF a <= b THEN a ELSE b

\* The lists the loops run over: a prefix of the program's lists.
TARGET_REPOS == SubSeq(AllRepos, 1, Min(NumRepos, Len(AllRepos)))

LABELS_TO_SEARCH == SubSeq(AllLabels, 1, Min(NumLabels, Len(AllLabels)))

\* issues[:2]
SliceLen == 2

\* main calls find_good_issues(g, max_issues=3)
MainMaxIssues == 3

DocTemplate ==
  "Hi! I'd like to help improve the documentation for this issue.\n\nBased on the issue description, I can:\n- Review and clarify existing documentation\n- Add code examples if needed\n- Improve formatting and readability\n\nLet me know if you'd like me to submit a PR with these improvements!"

GenericTemplate ==
  "Hi! I'm interested in working on this issue.\n\nI have experience with data engineering and would like to contribute. Could you provide any additional context or point me to relevant code sections?\n\nThanks!"

\* os.getenv gives None for a variable that is not set.
None == "<None>"

\* The login of the authenticated identity, and of anybody else.
Me == "me"
Other == "other"

\* The two overlapping invocations of the logger; main is process 1.
Procs == { 1, 2 }

VARIABLES
  env,           \* world: the environment variables GH_PAT and GITHUB_TOKEN
  prNumbers,     \* world: the issue numbers that are pull requests
  comments,      \* world: the comments of the selected issue, oldest first
  file,          \* world: contributions.json, [exists, data]
  pc,            \* position of the main thread
  token,         \* get_github_client: token
  exitStatus,    \* exit status of the process, -1 while it runs
  out,           \* console: the kinds of message printed
  netUsed,       \* history: a call to the GitHub API was attempted
  calls,         \* how many calls the driver of a single function has made
  max_issues,    \* find_good_issues: parameter
  ri,            \* find_good_issues: index of repo_name in TARGET_REPOS
  li,            \* find_good_issues: index of label in LABELS_TO_SEARCH
  issues,        \* find_good_issues: the slice issues[:2] being iterated
  ii,            \* find_good_issues: index in the slice
  issues_found,  \* find_good_issues: the accumulated records
  available,     \* history: non-PR issues among the first 2 results of the
                 \* combinations examined so far
  visited,       \* history: the <<repo index, label index>> combinations whose
                 \* issues were requested, in order
  accessed,      \* history: indices of the repositories get_repo returned
  foundBefore,   \* history: Len(issues_found) when the current listing began
  issue_info,    \* analyze_and_comment: parameter
  clist,         \* analyze_and_comment: the comments being iterated
  ci,            \* analyze_and_comment: index in clist
  comment_text,  \* analyze_and_comment: comment_text
  result,        \* analyze_and_comment: the value returned
  attempts,      \* history: the records analyze_and_comment was called with
  lpc,           \* save_contribution_log: position, per process
  llog,          \* save_contribution_log: log, per process
  largs,         \* save_contribution_log: parameter issues, per process
  lentry,        \* save_contribution_log: the entry built at lines 141-144
  file0,         \* history: contributions.json at the start
  written        \* history: the entries of the calls that wrote the file

worldVars == << env, prNumbers >>
mainVars == << token, exitStatus, calls >>
finderVars == << max_issues, ri, li, issues, ii, issues_found >>
finderHist == << available, visited, accessed, foundBefore >>
commentVars == << issue_info, clist, ci, comment_text, result, attempts >>
logVars == << lpc, llog, largs, lentry, file0, written >>

vars == << worldVars, comments, file, pc, out, netUsed, mainVars, finderVars,
           finderHist, commentVars, logVars >>

Numbers == 1 .. MaxNumber

\* Sequences over S of length 0..n.
RECURSIVE SeqsUpTo(_, _)
SeqsUpTo(S, n) ==
  IF n = 0 THEN { << >> }
  ELSE LET shorter == SeqsUpTo(S, n - 1)
       IN shorter \cup { Append(s, x) : s \in { t \in shorter : Len(t) = n - 1 }, x \in S }

(***************************************************************************)
(* find_good_issues                                                        *)
(***************************************************************************)
\* What repo.get_issues(...) can return: issue numbers, newest first; one
\* result more than the slice takes.
Listings == SeqsUpTo(Numbers, SliceLen + 1)

\* issues[:2]
FirstTwo(l) == SubSeq(l, 1, Min(SliceLen, Len(l)))

\* issue.pull_request is None
IsPlainIssueAlways(n) == TRUE
IsPlainIssue(n) == n \notin prNumbers

RECURSIVE CountPlain(_)
CountPlain(s) ==
  IF s = << >> THEN 0
  ELSE (IF Head(s) \notin prNumbers THEN 1 ELSE 0) + CountPlain(Tail(s))

\* The record appended at lines 68-75.
IssueRecord(r, l, n) ==
  [ repo |-> TARGET_REPOS[r], number |-> n, label |-> LABELS_TO_SEARCH[l] ]

\* Where control goes when get_repo raises: the outer handler, which prints
\* and continues with the next repository (li = 0: no label was reached).
OnRepoError == "find_repo_next"

\* Where control goes when listing a label raises: the inner handler, which
\* prints and continues with the next label (ii = 0: no issue was reached).
OnLabelErrorSkipsRepo == "find_repo_next"
OnLabelError == "find_label_next"

\* The test that ends the search, made right after an append.
CapReached(found, max) == Len(found) >= max

\* issues_found = [] and the start of the outer loop.
FindEnter ==
  /\ pc = "find_enter"
  /\ issues_found' = << >>
  /\ ri' = 1
  /\ pc' = "find_repo"
  /\ UNCHANGED << max_issues, li, issues, ii >>
  /\ UNCHANGED << worldVars, comments, file, out, netUsed, mainVars,
                  finderHist, commentVars, logVars >>

\* for repo_name in TARGET_REPOS: repo = g.get_repo(repo_name)
FindRepo ==
  /\ pc = "find_repo"
  /\ IF ri > Len(TARGET_REPOS)
       THEN /\ pc' = "find_return"
            /\ UNCHANGED << li, accessed, netUsed >>
       ELSE /\ netUsed' = TRUE
            /\ \/ /\ li' = 1
                  /\ accessed' = accessed \cup { ri }
                  /\ pc' = "find_label"
               \/ /\ li' = 0
                  /\ pc' = OnRepoError
                  /\ UNCHANGED accessed
  /\ UNCHANGED << max_issues, ri, issues, ii, issues_found >>
  /\ UNCHANGED << available, visited, foundBefore >>
  /\ UNCHANGED << worldVars, comments, file, out, mainVars, commentVars,
                  logVars >>

\* The outer loop moves on: after the last label, or from the outer handler.
FindRepoNext ==
  /\ pc = "find_repo_next"
  /\ ri' = ri + 1
  /\ pc' = "find_repo"
  /\ UNCHANGED << max_issues, li, issues, ii, issues_found >>
  /\ UNCHANGED << worldVars, comments, file, out, netUsed, mainVars,
                  finderHist, commentVars, logVars >>

\* for label in LABELS_TO_SEARCH: issues = repo.get_issues(...); issues[:2]
FindLabel ==
  /\ pc = "find_label"
  /\ IF li > Len(LABELS_TO_SEARCH)
       THEN /\ pc' = "find_repo_next"
            /\ UNCHANGED << issues, ii, available, visited, foundBefore >>
       ELSE /\ visited' = Append(visited, << ri, li >>)
            /\ foundBefore' = Len(issues_found)
            /\ \/ \E l \in Listings :
                    /\ issues' = FirstTwo(l)
                    /\ ii' = 1
                    /\ available' = available + CountPlain(FirstTwo(l))
                    /\ pc' = "find_issue"
               \/ /\ pc' = OnLabelError
                  /\ issues' = << >>
                  /\ ii' = 0
                  /\ UNCHANGED available
  /\ UNCHANGED << max_issues, ri, li, issues_found, accessed, netUsed >>
  /\ UNCHANGED << worldVars, comments, file, out, mainVars, commentVars,
                  logVars >>

\* The inner loop moves on: after the slice, or from the inner handler.
FindLabelNext ==
  /\ pc = "find_label_next"
  /\ li' = li + 1
  /\ pc' = "find_label"
  /\ UNCHANGED << max_issues, ri, issues, ii, issues_found >>
  /\ UNCHANGED << worldVars, comments, file, out, netUsed, mainVars,
                  finderHist, commentVars, logVars >>

\* for issue in issues[:2]: one iteration
FindIssue ==
  /\ pc = "find_issue"
  /\ IF ii > Len(issues)
       THEN /\ pc' = "find_label_next"
            /\ UNCHANGED << ii, issues_found >>
       ELSE IF IsPlainIssue(issues[ii])
         THEN /\ issues_found' = Append(issues_found, IssueRecord(ri, li, issues[ii]))
              /\ IF CapReached(issues_found', max_issues)
                   THEN pc' = "find_return" /\ UNCHANGED ii
                   ELSE pc' = "find_issue" /\ ii' = ii + 1
         ELSE /\ ii' = ii + 1
              /\ pc' = "find_issue"
              /\ UNCHANGED issues_found
  /\ UNCHANGED << max_issues, ri, li, issues >>
  /\ UNCHANGED << worldVars, comments, file, out, netUsed, mainVars,
                  finderHist, commentVars, logVars >>

find_good_issues ==
  \/ FindEnter
  \/ FindRepo
  \/ FindRepoNext
  \/ FindLabel
  \/ FindLabelNext
  \/ FindIssue

(***************************************************************************)
(* analyze_and_comment                                                     *)
(***************************************************************************)
Upper ==
  << "A", "B", "C", "D", "E", "F", "G", "H", "I", "J", "K", "L", "M", "N",
     "O", "P", "Q", "R", "S", "T", "U", "V", "W", "X", "Y", "Z" >>

Lower ==
  << "a", "b", "c", "d", "e", "f", "g", "h", "i", "j", "k", "l", "m", "n",
     "o", "p", "q", "r", "s", "t", "u", "v", "w", "x", "y", "z" >>

\* The characters of the strings a label can be.
CharsOf(s) ==
  CASE s = "good first issue" ->
         << "g", "o", "o", "d", " ", "f", "i", "r", "s", "t", " ", "i", "s", "s", "u", "e" >>
    [] s = "documentation" ->
         << "d", "o", "c", "u", "m", "e", "n", "t", "a", "t", "i", "o", "n" >>
    [] s = "help wanted" ->
         << "h", "e", "l", "p", " ", "w", "a", "n", "t", "e", "d" >>
    [] s = "beginner" ->
         << "b", "e", "g", "i", "n", "n", "e", "r" >>
    [] s = "easy" ->
         << "e", "a", "s", "y" >>
    [] s = "Documentation" ->
         << "D", "o", "c", "u", "m", "e", "n", "t", "a", "t", "i", "o", "n" >>
    [] s = "DOCUMENTATION" ->
         << "D", "O", "C", "U", "M", "E", "N", "T", "A", "T", "I", "O", "N" >>
    [] s = "needs documentation" ->
         << "n", "e", "e", "d", "s", " ", "d", "o", "c", "u", "m", "e", "n", "t", "a", "t", "i", "o", "n" >>
    [] s = "docs" ->
         << "d", "o", "c", "s" >>
    [] s = "documentatio" ->
         << "d", "o", "c", "u", "m", "e", "n", "t", "a", "t", "i", "o" >>

\* The labels analyze_and_comment is tried with: the program's own and others.
LabelInputs ==
  { AllLabels[i] : i \in 1 .. Len(AllLabels) }
    \cup { "Documentation", "DOCUMENTATION", "needs documentation", "docs",
           "documentatio" }

\* str.lower(), on a sequence of characters
LowerChar(c) ==
  IF \E i \in 1 .. Len(Upper) : Upper[i] = c
    THEN Lower[CHOOSE i \in 1 .. Len(Upper) : Upper[i] = c]
    ELSE c

ToLower(cs) == [ i \in 1 .. Len(cs) |-> LowerChar(cs[i]) ]

\* needle in hay
Contains(hay, needle) ==
  \E i \in 0 .. (Len(hay) - Len(needle)) : SubSeq(hay, i + 1, i + Len(needle)) = needle

\* 'documentation' in issue_info['label'].lower()
IsDocLabelNoLower(label) == Contains(CharsOf(label), CharsOf("documentation"))
IsDocLabel(label) == Contains(ToLower(CharsOf(label)), CharsOf("documentation"))

\* The body chosen at lines 103-118.
CommentText(label) == IF IsDocLabel(label) THEN DocTemplate ELSE GenericTemplate

\* comment.user.login == g.get_user().login
IsOwnNever(c) == FALSE
IsOwn(c) == c.user = Me

\* The comments of the issue written by the authenticated identity.
OwnComments(cs) == { i \in 1 .. Len(cs) : cs[i].user = Me }

\* repo = g.get_repo(...); issue = repo.get_issue(...)
CommentEnter ==
  /\ pc = "comment_enter"
  /\ netUsed' = TRUE
  /\ \/ pc' = "comment_list"
     \/ pc' = "comment_except"
  /\ UNCHANGED << worldVars, comments, file, out, mainVars, finderVars,
                  finderHist, commentVars, logVars >>

\* comments = issue.get_comments() and the start of the loop over them
CommentList ==
  /\ pc = "comment_list"
  /\ \/ /\ clist' = comments
        /\ ci' = 1
        /\ pc' = "comment_check"
     \/ /\ pc' = "comment_except"
        /\ UNCHANGED << clist, ci >>
  /\ UNCHANGED << issue_info, comment_text, result, attempts >>
  /\ UNCHANGED << worldVars, comments, file, out, netUsed, mainVars,
                  finderVars, finderHist, logVars >>

\* for comment in comments: one iteration, with its call of g.get_user()
CommentCheck ==
  /\ pc = "comment_check"
  /\ IF ci > Len(clist)
       THEN /\ pc' = "comment_compose"
            /\ UNCHANGED << ci, result, out >>
       ELSE \/ /\ IsOwn(clist[ci])
               /\ out' = out \cup { "Already commented" }
               /\ result' = "False"
               /\ pc' = "comment_return"
               /\ UNCHANGED ci
            \/ /\ ~IsOwn(clist[ci])
               /\ ci' = ci + 1
               /\ pc' = "comment_check"
               /\ UNCHANGED << result, out >>
            \/ /\ pc' = "comment_except"
               /\ UNCHANGED << ci, result, out >>
  /\ UNCHANGED << issue_info, clist, comment_text, attempts >>
  /\ UNCHANGED << worldVars, comments, file, netUsed, mainVars, finderVars,
                  finderHist, logVars >>

\* The choice of the template.
CommentCompose ==
  /\ pc = "comment_compose"
  /\ comment_text' = CommentText(issue_info.label)
  /\ pc' = "comment_post"
  /\ UNCHANGED << issue_info, clist, ci, result, attempts >>
  /\ UNCHANGED << worldVars, comments, file, out, netUsed, mainVars,
                  finderVars, finderHist, logVars >>

\* issue.create_comment(comment_text): it returns, or it raises, and when it
\* raises the comment may or may not have been created on the server.
CommentPost ==
  /\ pc = "comment_post"
  /\ \/ /\ comments' = Append(comments, [ user |-> Me, body |-> comment_text ])
        /\ out' = out \cup { "Commented" }
        /\ result' = "True"
        /\ pc' = "comment_return"
     \/ /\ comments' = Append(comments, [ user |-> Me, body |-> comment_text ])
        /\ pc' = "comment_except"
        /\ UNCHANGED << out, result >>
     \/ /\ pc' = "comment_except"
        /\ UNCHANGED << comments, out, result >>
  /\ UNCHANGED << issue_info, clist, ci, comment_text, attempts >>
  /\ UNCHANGED << worldVars, file, netUsed, mainVars, finderVars, finderHist,
                  logVars >>

\* except Exception: print and return False
CommentExcept ==
  /\ pc = "comment_except"
  /\ out' = out \cup { "Error commenting on issue" }
  /\ result' = "False"
  /\ pc' = "comment_return"
  /\ UNCHANGED << issue_info, clist, ci, comment_text, attempts >>
  /\ UNCHANGED << worldVars, comments, file, netUsed, mainVars, finderVars,
                  finderHist, logVars >>

analyze_and_comment ==
  \/ CommentEnter
  \/ CommentList
  \/ CommentCheck
  \/ CommentCompose
  \/ CommentPost
  \/ CommentExcept

(***************************************************************************)
(* json.dump and json.load, on sequences of tokens.  A token is a bracket, *)
(* a quoted string or a decimal number; white space, commas and colons are *)
(* layout and are left out.                                                *)
(***************************************************************************)
Quote(s) == "\"" \o s \o "\""

\* datetime.now().isoformat(): the clock readings a run can see.
Dates == { "2024-05-01T09:00:00", "2024-05-02T09:00:00" }

\* The strings a log can hold.
StringUniverse ==
  { AllRepos[i] : i \in 1 .. Len(AllRepos) } \cup LabelInputs \cup Dates

DumpIssue(i) ==
  << "{", Quote("repo"), Quote(i.repo), Quote("number"), ToString(i.number),
     Quote("label"), Quote(i.label), "}" >>

RECURSIVE DumpIssues(_)
DumpIssues(s) ==
  IF s = << >> THEN << >> ELSE DumpIssue(Head(s)) \o DumpIssues(Tail(s))

DumpEntry(e) ==
  << "{", Quote("date"), Quote(e.date), Quote("issues"), "[" >>
    \o DumpIssues(e.issues) \o << "]", "}" >>

RECURSIVE DumpEntries(_)
DumpEntries(s) ==
  IF s = << >> THEN << >> ELSE DumpEntry(Head(s)) \o DumpEntries(Tail(s))

\* json.dump(log, f, indent=2)
JsonDump(log) == << "[" >> \o DumpEntries(log) \o << "]" >>

\* The token at position i, or the end of the file.
Tok(t, i) == IF i >= 1 /\ i <= Len(t) THEN t[i] ELSE "<eof>"

IsStringTok(x) == \E s \in StringUniverse : Quote(s) = x
StringOf(x) == CHOOSE s \in StringUniverse : Quote(s) = x

IsNumberTok(x) == \E n \in 0 .. MaxNumber : ToString(n) = x
NumberOf(x) == CHOOSE n \in 0 .. MaxNumber : ToString(n) = x

\* The outcome of parsing from position i: ok, the value and the next position.
Bad == [ ok |-> FALSE, val |-> << >>, next |-> 0 ]
Good(v, n) == [ ok |-> TRUE, val |-> v, next |-> n ]

ParseIssue(t, i) ==
  IF /\ Tok(t, i) = "{"
     /\ Tok(t, i + 1) = Quote("repo") /\ IsStringTok(Tok(t, i + 2))
     /\ Tok(t, i + 3) = Quote("number") /\ IsNumberTok(Tok(t, i + 4))
     /\ Tok(t, i + 5) = Quote("label") /\ IsStringTok(Tok(t, i + 6))
     /\ Tok(t, i + 7) = "}"
    THEN Good([ repo |-> StringOf(Tok(t, i + 2)),
                number |-> NumberOf(Tok(t, i + 4)),
                label |-> StringOf(Tok(t, i + 6)) ], i + 8)
    ELSE Bad

\* The elements of an array up to its closing bracket.
RECURSIVE ParseIssues(_, _)
ParseIssues(t, i) ==
  IF Tok(t, i) = "]" THEN Good(<< >>, i + 1)
  ELSE LET first == ParseIssue(t, i)
       IN IF ~first.ok THEN Bad
          ELSE LET rest == ParseIssues(t, first.next)
               IN IF ~rest.ok THEN Bad
                  ELSE Good(<< first.val >> \o rest.val, rest.next)

ParseEntry(t, i) ==
  IF /\ Tok(t, i) = "{"
     /\ Tok(t, i + 1) = Quote("date") /\ IsStringTok(Tok(t, i + 2))
     /\ Tok(t, i + 3) = Quote("issues") /\ Tok(t, i + 4) = "["
    THEN LET arr == ParseIssues(t, i + 5)
         IN IF arr.ok /\ Tok(t, arr.next) = "}"
              THEN Good([ date |-> StringOf(Tok(t, i + 2)), issues |-> arr.val ],
                        arr.next + 1)
              ELSE Bad
    ELSE Bad

RECURSIVE ParseEntries(_, _)
ParseEntries(t, i) ==
  IF Tok(t, i) = "]" THEN Good(<< >>, i + 1)
  ELSE LET first == ParseEntry(t, i)
       IN IF ~first.ok THEN Bad
          ELSE LET rest == ParseEntries(t, first.next)
               IN IF ~rest.ok THEN Bad
                  ELSE Good(<< first.val >> \o rest.val, rest.next)

\* json.load(f) followed by the use of the value as a list of entries: ok is
\* FALSE when json.load raises or the value is no such list.
JsonLoad(t) ==
  IF Tok(t, 1) # "[" THEN Bad
  ELSE LET arr == ParseEntries(t, 2)
       IN IF arr.ok /\ arr.next = Len(t) + 1 THEN arr ELSE Bad

(***************************************************************************)
(* save_contribution_log, for process p                                    *)
(***************************************************************************)
\* The value of lentry before the entry is built.
NoEntry == [ date |-> "", issues |-> << >> ]

NoFile == [ exists |-> FALSE, data |-> << >> ]
FileOf(d) == [ exists |-> TRUE, data |-> d ]

\* log.append({'date': ..., 'issues': issues})
LogAppendFirst(log, entry) == << entry >> \o log
LogAppend(log, entry) == Append(log, entry)

\* What the file holds after a process that opened it with 'w' wrote d from
\* its own offset 0 and closed it.
WriteAtStart(old, d) == d \o SubSeq(old, Len(d) + 1, Len(old))

\* if os.path.exists(log_file): ... else: log = []
LogExists(p) ==
  /\ lpc[p] = "start"
  /\ IF file.exists
       THEN /\ lpc' = [ lpc EXCEPT ![p] = "load" ]
            /\ UNCHANGED llog
       ELSE /\ llog' = [ llog EXCEPT ![p] = << >> ]
            /\ lpc' = [ lpc EXCEPT ![p] = "append" ]
  /\ UNCHANGED << largs, lentry, file0, written >>
  /\ UNCHANGED << worldVars, comments, file, pc, out, netUsed, mainVars,
                  finderVars, finderHist, commentVars >>

\* with open(log_file, 'r') as f: log = json.load(f)
LogLoad(p) ==
  /\ lpc[p] = "load"
  /\ LET r == JsonLoad(file.data)
     IN IF r.ok
          THEN /\ llog' = [ llog EXCEPT ![p] = r.val ]
               /\ lpc' = [ lpc EXCEPT ![p] = "append" ]
          ELSE /\ lpc' = [ lpc EXCEPT ![p] = "raised" ]
               /\ UNCHANGED llog
  /\ UNCHANGED << largs, lentry, file0, written >>
  /\ UNCHANGED << worldVars, comments, file, pc, out, netUsed, mainVars,
                  finderVars, finderHist, commentVars >>

\* log.append({'date': datetime.now().isoformat(), 'issues': issues})
LogAdd(p) ==
  /\ lpc[p] = "append"
  /\ \E d \in Dates :
       /\ lentry' = [ lentry EXCEPT ![p] = [ date |-> d, issues |-> largs[p] ] ]
       /\ llog' = [ llog EXCEPT ![p] = LogAppend(@, lentry'[p]) ]
  /\ lpc' = [ lpc EXCEPT ![p] = "open_w" ]
  /\ UNCHANGED << largs, file0, written >>
  /\ UNCHANGED << worldVars, comments, file, pc, out, netUsed, mainVars,
                  finderVars, finderHist, commentVars >>

\* open(log_file, 'w'): it truncates the file, or raises (the path cannot
\* be written) and leaves it.
LogOpen(p) ==
  /\ lpc[p] = "open_w"
  /\ \/ /\ file' = FileOf(<< >>)
        /\ lpc' = [ lpc EXCEPT ![p] = "dump" ]
     \/ /\ lpc' = [ lpc EXCEPT ![p] = "raised" ]
        /\ UNCHANGED file
  /\ UNCHANGED << llog, largs, lentry, file0, written >>
  /\ UNCHANGED << worldVars, comments, pc, out, netUsed, mainVars,
                  finderVars, finderHist, commentVars >>

\* json.dump(log, f, indent=2), the close of the file and the final print
LogDump(p) ==
  /\ lpc[p] = "dump"
  /\ file' = FileOf(WriteAtStart(file.data, JsonDump(llog[p])))
  /\ written' = Append(written, lentry[p])
  /\ out' = out \cup { "Log saved" }
  /\ lpc' = [ lpc EXCEPT ![p] = "returned" ]
  /\ UNCHANGED << llog, largs, lentry, file0 >>
  /\ UNCHANGED << worldVars, comments, pc, netUsed, mainVars, finderVars,
                  finderHist, commentVars >>

save_contribution_log(p) ==
  \/ LogExists(p)
  \/ LogLoad(p)
  \/ LogAdd(p)
  \/ LogOpen(p)
  \/ LogDump(p)

(***************************************************************************)
(* get_github_client and main                                              *)
(***************************************************************************)
\* bool(v) of a value os.getenv returns
Truthy(v) == v # None /\ v # ""

\* a or b
PyOr(a, b) == IF Truthy(a) THEN a ELSE b

\* os.getenv('GH_PAT') or os.getenv('GITHUB_TOKEN')
ResolveTokenOther(e) == PyOr(e.GITHUB_TOKEN, e.GH_PAT)
ResolveToken(e) == PyOr(e.GH_PAT, e.GITHUB_TOKEN)

\* The banner and g = get_github_client(), which ends the process with
\* sys.exit(1) when there is no token.
MainStart ==
  /\ pc = "main_start"
  /\ token' = ResolveToken(env)
  /\ IF ~Truthy(token')
       THEN /\ out' = out \cup { "Error: GitHub token not found" }
            /\ exitStatus' = 1
            /\ pc' = "exited"
       ELSE /\ pc' = "main_user"
            /\ UNCHANGED << exitStatus, out >>
  /\ UNCHANGED << calls, worldVars, comments, file, netUsed, finderVars,
                  finderHist, commentVars, logVars >>

\* user = g.get_user(); print(user.login), then the call of find_good_issues.
\* No handler surrounds the fetch: when it raises, the process ends with a
\* traceback and status 1.
MainUser ==
  /\ pc = "main_user"
  /\ netUsed' = TRUE
  /\ \/ /\ max_issues' = MainMaxIssues
        /\ pc' = "find_enter"
        /\ UNCHANGED << exitStatus, out >>
     \/ /\ out' = out \cup { "Traceback" }
        /\ exitStatus' = 1
        /\ pc' = "exited"
        /\ UNCHANGED max_issues
  /\ UNCHANGED << ri, li, issues, ii, issues_found >>
  /\ UNCHANGED << token, calls, worldVars, comments, file, finderHist,
                  commentVars, logVars >>

\* issues = find_good_issues(...); if not issues: return; otherwise print
\* them and call analyze_and_comment(g, issues[0]).  The frame of
\* find_good_issues is gone, and with it the history of that call.
MainAfterFind ==
  /\ pc = "find_return"
  /\ IF issues_found = << >>
       THEN /\ out' = out \cup { "No suitable issues found" }
            /\ exitStatus' = 0
            /\ pc' = "exited"
            /\ UNCHANGED << issue_info, attempts >>
       ELSE /\ out' = out \cup { "Found" }
            /\ issue_info' = issues_found[1]
            /\ attempts' = Append(attempts, issues_found[1])
            /\ pc' = "comment_enter"
            /\ UNCHANGED exitStatus
  /\ ri' = 0 /\ li' = 0 /\ issues' = << >> /\ ii' = 0
  /\ available' = 0 /\ visited' = << >> /\ accessed' = { } /\ foundBefore' = 0
  /\ UNCHANGED << max_issues, issues_found >>
  /\ UNCHANGED << clist, ci, comment_text, result >>
  /\ UNCHANGED << token, calls, worldVars, comments, file, netUsed, logVars >>

\* The value analyze_and_comment returns is dropped and its frame is gone;
\* save_contribution_log(issues)
MainAfterComment ==
  /\ pc = "comment_return"
  /\ largs' = [ largs EXCEPT ![1] = issues_found ]
  /\ lpc' = [ lpc EXCEPT ![1] = "start" ]
  /\ pc' = "save_wait"
  /\ clist' = << >> /\ ci' = 0 /\ comment_text' = ""
  /\ UNCHANGED << issue_info, result, attempts >>
  /\ UNCHANGED << llog, lentry, file0, written >>
  /\ UNCHANGED << worldVars, comments, file, out, netUsed, mainVars,
                  finderVars, finderHist >>

\* save_contribution_log returned: the last print, and main returns.  Or it
\* raised: no handler, a traceback and status 1.
MainAfterSave ==
  /\ pc = "save_wait"
  /\ \/ /\ lpc[1] = "returned"
        /\ out' = out \cup { "Daily contribution complete" }
        /\ exitStatus' = 0
     \/ /\ lpc[1] = "raised"
        /\ out' = out \cup { "Traceback" }
        /\ exitStatus' = 1
  /\ pc' = "exited"
  /\ UNCHANGED << token, calls, worldVars, comments, file, netUsed,
                  finderVars, finderHist, commentVars, logVars >>

main ==
  \/ MainStart
  \/ MainUser
  \/ MainAfterFind
  \/ MainAfterComment
  \/ MainAfterSave

(***************************************************************************)
(* Initial values                                                          *)
(***************************************************************************)
\* The records and lists of records the single functions are tried with.
RecordInputs == { IssueRecord(1, 1, 1), IssueRecord(1, 2, 2) }

IssueListInputs == SeqsUpTo(RecordInputs, 2)

EntryInputs ==
  { [ date |-> d, issues |-> s ] : d \in Dates, s \in SeqsUpTo(RecordInputs, 1) }

\* contributions.json: absent, a log written by earlier runs, or damaged.
ValidFiles == { NoFile } \cup { FileOf(JsonDump(l)) : l \in SeqsUpTo(EntryInputs, 1) }

DamagedFiles == { FileOf(<< >>), FileOf(<< "[" >>), FileOf(<< "{", "}" >>) }

\* The comments an issue can start with: at most one of them is ours.
CommentInputs ==
  { << >>,
    << [ user |-> Other, body |-> "text" ] >>,
    << [ user |-> Me, body |-> GenericTemplate ] >>,
    << [ user |-> Other, body |-> "text" ], [ user |-> Me, body |-> GenericTemplate ] >> }

EnvInputs == [ GH_PAT : { None, "", "tokB" }, GITHUB_TOKEN : { None, "", "tokA" } ]

WorldIdle ==
  /\ env = [ GH_PAT |-> "tokB", GITHUB_TOKEN |-> None ]
  /\ prNumbers = { }
  /\ comments = << >>

MainIdle ==
  /\ token = "tokB" /\ exitStatus = -1 /\ out = { } /\ netUsed = FALSE /\ calls = 0

FinderIdle ==
  /\ max_issues = MainMaxIssues
  /\ ri = 0 /\ li = 0 /\ issues = << >> /\ ii = 0 /\ issues_found = << >>
  /\ available = 0 /\ visited = << >> /\ accessed = { }
  /\ foundBefore = 0

CommentIdle ==
  /\ issue_info = IssueRecord(1, 1, 1)
  /\ clist = << >> /\ ci = 0 /\ comment_text = "" /\ result = "None"
  /\ attempts = << >>

LogIdle ==
  /\ lpc = [ p \in Procs |-> "idle" ]
  /\ llog = [ p \in Procs |-> << >> ]
  /\ largs = [ p \in Procs |-> << >> ]
  /\ lentry = [ p \in Procs |-> NoEntry ]
  /\ written = << >>
  /\ file0 = file

(***************************************************************************)
(* SpecFinder: find_good_issues alone, for max_issues in 0..MaxMaxIssues.  *)
(***************************************************************************)
FinderInit ==
  /\ env = [ GH_PAT |-> "tokB", GITHUB_TOKEN |-> None ]
  /\ prNumbers \in SUBSET Numbers
  /\ comments = << >>
  /\ file = NoFile
  /\ pc = "find_enter"
  /\ MainIdle
  /\ max_issues \in 0 .. MaxMaxIssues
  /\ ri = 0 /\ li = 0 /\ issues = << >> /\ ii = 0 /\ issues_found = << >>
  /\ available = 0 /\ visited = << >> /\ accessed = { }
  /\ foundBefore = 0
  /\ CommentIdle
  /\ LogIdle

\* The caller receives the list.
FinderDone ==
  /\ pc = "find_return"
  /\ pc' = "done"
  /\ UNCHANGED << worldVars, comments, file, out, netUsed, mainVars,
                  finderVars, finderHist, commentVars, logVars >>

FinderNext == find_good_issues \/ FinderDone

SpecFinder == FinderInit /\ [][FinderNext]_vars

(***************************************************************************)
(* SpecComment: analyze_and_comment called up to MaxCalls times on the     *)
(* same issue, while other users comment on it.                            *)
(***************************************************************************)
CommentInit ==
  /\ env = [ GH_PAT |-> "tokB", GITHUB_TOKEN |-> None ]
  /\ prNumbers = { }
  /\ comments \in CommentInputs
  /\ file = NoFile
  /\ pc = "comment_enter"
  /\ token = "tokB" /\ exitStatus = -1 /\ out = { } /\ netUsed = FALSE
  /\ calls = 1
  /\ FinderIdle
  /\ \E l \in LabelInputs :
       /\ issue_info = [ repo |-> TARGET_REPOS[1], number |-> 1, label |-> l ]
       /\ attempts = << issue_info >>
  /\ clist = << >> /\ ci = 0 /\ comment_text = "" /\ result = "None"
  /\ LogIdle

\* The next call, with the same record.
CommentAgain ==
  /\ pc = "comment_return"
  /\ calls < MaxCalls
  /\ calls' = calls + 1
  /\ attempts' = Append(attempts, issue_info)
  /\ pc' = "comment_enter"
  /\ UNCHANGED << token, exitStatus, issue_info, clist, ci, comment_text, result >>
  /\ UNCHANGED << worldVars, comments, file, out, netUsed, finderVars,
                  finderHist, logVars >>

\* Somebody else comments on the issue.
OtherComments ==
  /\ Len(comments) < MaxComments
  /\ comments' = Append(comments, [ user |-> Other, body |-> "text" ])
  /\ UNCHANGED << worldVars, file, pc, out, netUsed, mainVars, finderVars,
                  finderHist, commentVars, logVars >>

CommentNext == analyze_and_comment \/ CommentAgain \/ OtherComments

SpecComment == CommentInit /\ [][CommentNext]_vars

(***************************************************************************)
(* SpecLog: save_contribution_log called up to MaxCalls times, one call    *)
(* after the other.                                                        *)
(***************************************************************************)
LogInit ==
  /\ WorldIdle
  /\ file \in ValidFiles \cup DamagedFiles
  /\ pc = "driver"
  /\ MainIdle
  /\ FinderIdle
  /\ CommentIdle
  /\ LogIdle

LogCall ==
  /\ lpc[1] \in { "idle", "returned", "raised" }
  /\ calls < MaxCalls
  /\ calls' = calls + 1
  /\ \E a \in IssueListInputs : largs' = [ largs EXCEPT ![1] = a ]
  /\ lpc' = [ lpc EXCEPT ![1] = "start" ]
  /\ UNCHANGED << token, exitStatus, llog, lentry, file0, written >>
  /\ UNCHANGED << worldVars, comments, file, pc, out, netUsed, finderVars,
                  finderHist, commentVars >>

LogNext == LogCall \/ save_contribution_log(1)

SpecLog == LogInit /\ [][LogNext]_vars

(***************************************************************************)
(* SpecOverlap: two invocations of save_contribution_log that overlap.     *)
(***************************************************************************)
OverlapInit ==
  /\ WorldIdle
  /\ file \in ValidFiles \cup DamagedFiles
  /\ pc = "driver"
  /\ MainIdle
  /\ FinderIdle
  /\ CommentIdle
  /\ lpc = [ p \in Procs |-> "start" ]
  /\ llog = [ p \in Procs |-> << >> ]
  /\ largs \in [ Procs -> IssueListInputs ]
  /\ lentry = [ p \in Procs |-> NoEntry ]
  /\ written = << >>
  /\ file0 = file

OverlapNext == \E p \in Procs : save_contribution_log(p)

SpecOverlap == OverlapInit /\ [][OverlapNext]_vars

(***************************************************************************)
(* SpecMain: one run of the script.  Every environment is tried with a     *)
(* quiet world, and every world with both variables set.                   *)
(***************************************************************************)
MainComments ==
  { << >>,
    << [ user |-> Other, body |-> "text" ], [ user |-> Me, body |-> GenericTemplate ] >> }

MainFiles ==
  { NoFile,
    FileOf(JsonDump(<< [ date |-> "2024-05-01T09:00:00", issues |-> << IssueRecord(1, 1, 1) >> ] >>)),
    FileOf(<< "[" >>) }

MainInit ==
  /\ \/ /\ env \in EnvInputs
        /\ prNumbers = { }
        /\ comments = << >>
        /\ file \in MainFiles
     \/ /\ env = [ GH_PAT |-> "tokB", GITHUB_TOKEN |-> "tokA" ]
        /\ prNumbers \in SUBSET Numbers
        /\ comments \in MainComments
        /\ file \in MainFiles
  /\ pc = "main_start"
  /\ token = None /\ exitStatus = -1 /\ out = { } /\ netUsed = FALSE /\ calls = 0
  /\ FinderIdle
  /\ CommentIdle
  /\ LogIdle

MainNext ==
  \/ main
  \/ find_good_issues
  \/ analyze_and_comment
  \/ save_contribution_log(1)

SpecMain == MainInit /\ [][MainNext]_vars

(***************************************************************************)
(* Properties of find_good_issues (SpecFinder)                             *)
(***************************************************************************)
IsPrefix(s, t) == Len(s) <= Len(t) /\ SubSeq(t, 1, Len(s)) = s

Last(s) == s[Len(s)]

\* C1: find_good_issues returns at most max_issues records, and exactly
\* min(max_issues, the non-PR issues among the first 2 results of the
\* combinations examined), for every max_issues >= 0.
C1_CapAndCount ==
  pc = "find_return" =>
    /\ Len(issues_found) <= max_issues
    /\ Len(issues_found) = Min(max_issues, available)

\* The slice being iterated holds two issues and both are pull requests.
BothPullRequests ==
  /\ Len(issues) = SliceLen
  /\ \A k \in 1 .. Len(issues) : issues[k] \in prNumbers

C8_NoPullRequestRecord ==
  \A k \in 1 .. Len(issues_found) : issues_found[k].number \notin prNumbers

C8_SliceStep ==
  /\ (pc = "find_issue" /\ BothPullRequests) =>
       /\ issues_found' = issues_found
       /\ pc' \in { "find_issue", "find_label_next" }
  /\ (pc = "find_label_next" /\ BothPullRequests /\ ii > Len(issues)) =>
       /\ Len(issues_found) = foundBefore
       /\ issues_found' = issues_found
       /\ pc' = "find_label" /\ ri' = ri /\ li' = li + 1

\* C8: no record of the result is a pull request; a combination whose first 2
\* results are both pull requests adds no record, raises nothing, and the
\* search goes on with the next label.
C8_PullRequestsSkipped == []C8_NoPullRequestRecord /\ [][C8_SliceStep]_vars

\* C8's case: the slice of two pull requests has been iterated, after an
\* earlier combination gave a record.
C8_Witness ==
  /\ pc = "find_label_next" /\ BothPullRequests /\ ii > Len(issues)
  /\ issues_found # << >>
  /\ Len(issues_found) = foundBefore

\* The combinations in repository-major, label-minor order.
AllCombos ==
  [ k \in 1 .. (Len(TARGET_REPOS) * Len(LABELS_TO_SEARCH)) |->
      << ((k - 1) \div Len(LABELS_TO_SEARCH)) + 1,
         ((k - 1) % Len(LABELS_TO_SEARCH)) + 1 >> ]

InAccessed(c) == c[1] \in accessed

\* Every label of every repository that could be accessed, in order.
ExpectedOrder == SelectSeq(AllCombos, InAccessed)

C9_Order ==
  /\ IsPrefix(visited, ExpectedOrder)
  /\ (pc = "find_return" /\ Len(issues_found) < max_issues) =>
       /\ ri = Len(TARGET_REPOS) + 1
       /\ visited = ExpectedOrder

C9_Step ==
  /\ IsPrefix(issues_found, issues_found')
  /\ (pc = "find_label" /\ li <= Len(LABELS_TO_SEARCH) /\ pc' # "find_issue") =>
       pc' = "find_label_next" /\ ri' = ri /\ li' = li
  /\ (pc = "find_repo" /\ ri <= Len(TARGET_REPOS) /\ pc' # "find_label") =>
       pc' = "find_repo_next" /\ ri' = ri
  /\ pc' \in { "find_enter", "find_repo", "find_repo_next", "find_label",
               "find_label_next", "find_issue", "find_return", "done" }

\* C9: an error listing a label skips that label only, an error accessing a
\* repository skips that repository only; nothing is raised, the records
\* found so far are kept, and every later label and repository is searched in
\* repository-major, label-minor order until the cap is reached.
C9_ErrorsSkipOnlyTheirItem == []C9_Order /\ [][C9_Step]_vars

\* C9's case: the inner handler runs in the second repository with a record
\* already found, after the first repository could not be accessed or gave it.
C9_Witness ==
  /\ pc = "find_label_next" /\ ii = 0
  /\ ri = 2 /\ li = 1
  /\ issues_found # << >>
  /\ accessed = { 1, 2 }

(***************************************************************************)
(* Properties of analyze_and_comment (SpecComment)                         *)
(***************************************************************************)
C2_AtMostOne == Cardinality(OwnComments(comments)) <= 1

C2_Step ==
  OwnComments(comments) # { } =>
    /\ OwnComments(comments') = OwnComments(comments)
    /\ (pc # "comment_return" /\ pc' = "comment_return") => result' = "False"

\* C2: once the authenticated identity has a comment on the issue, a call
\* returns False and creates no comment; over any sequence of calls, failing
\* or not, the issue never carries two comments of the identity.
C2_NoSecondComment == []C2_AtMostOne /\ [][C2_Step]_vars

\* C2's case: the first call posted, the second found the comment and refused.
C2_Witness ==
  /\ pc = "comment_return" /\ calls = 2 /\ result = "False"
  /\ { "Commented", "Already commented" } \subseteq out
  /\ Cardinality(OwnComments(comments)) = 1

\* The labels of LabelInputs that read "documentation" when lower-cased.
ExactDocLabels == { "documentation", "Documentation", "DOCUMENTATION" }

\* The labels of LabelInputs that hold "documentation" when lower-cased.
SubstringDocLabels == ExactDocLabels \cup { "needs documentation" }

\* The step posts a comment of the authenticated identity.
Posts ==
  /\ Len(comments') = Len(comments) + 1
  /\ Last(comments').user = Me

\* C3, as stated: the body posted is the documentation template when the label
\* is exactly "documentation" in any letter case, the generic one otherwise.
C3_ExactLabel ==
  [][Posts =>
       Last(comments').body =
         IF issue_info.label \in ExactDocLabels THEN DocTemplate ELSE GenericTemplate]_vars

\* C3, amended: the body posted is the documentation template when the
\* lower-cased label contains "documentation", the generic one otherwise.
C3_SubstringLabel ==
  [][Posts =>
       Last(comments').body =
         IF issue_info.label \in SubstringDocLabels THEN DocTemplate ELSE GenericTemplate]_vars

\* C3's case: a comment was posted for a label that contains "documentation"
\* and is not equal to it.
C3_Witness ==
  /\ issue_info.label = "needs documentation"
  /\ result = "True"
  /\ \E k \in 1 .. Len(comments) :
       comments[k] = [ user |-> Me, body |-> DocTemplate ]

(***************************************************************************)
(* Properties of save_contribution_log (SpecLog, SpecOverlap)              *)
(***************************************************************************)
\* The log the first file held: no file is an empty log.
Log0 == IF file0.exists THEN JsonLoad(file0.data).val ELSE << >>

\* C4: after each successful call the file holds the previous array with one
\* new entry at the end, whose issues are the sequence passed in; earlier
\* entries are unchanged and keep their order.
C4_Appends ==
  lpc[1] = "returned" =>
    /\ JsonLoad(file.data).ok
    /\ JsonLoad(file.data).val = Log0 \o written
    /\ written # << >>
    /\ Last(written).issues = largs[1]

\* C4's case: a log of one entry, then two calls that wrote E1 and E2.
C4_Witness ==
  /\ lpc[1] = "returned"
  /\ Len(Log0) = 1
  /\ Len(written) = 2 /\ written[1] # written[2]
  /\ written[2].issues # << >>
  /\ JsonLoad(file.data).val = << Log0[1], written[1], written[2] >>

\* Both invocations returned, and the log each holds is one entry longer
\* than the first log: both read before either wrote (a log read after a
\* write is longer).
BothReadFirst ==
  \A p \in Procs :
    /\ lpc[p] = "returned"
    /\ Len(llog[p]) = Len(Log0) + 1

\* C10: nothing orders the read and the write of two overlapping invocations;
\* when both read before either writes, the file ends with at most one of
\* the two new entries (or cannot be parsed): an entry is lost.
C10_LostUpdate ==
  BothReadFirst =>
    \/ ~JsonLoad(file.data).ok
    \/ \E p \in Procs : JsonLoad(file.data).val = Append(Log0, lentry[p])

\* C10's case: both returned, the file holds the entry of process 2 alone.
C10_Witness ==
  /\ BothReadFirst
  /\ Len(written) = 2
  /\ lentry[1] # lentry[2]
  /\ Len(Log0) = 1
  /\ JsonLoad(file.data).ok
  /\ JsonLoad(file.data).val = Append(Log0, lentry[2])

(***************************************************************************)
(* Properties of main (SpecMain)                                           *)
(***************************************************************************)
NoCredential == ~Truthy(env.GH_PAT) /\ ~Truthy(env.GITHUB_TOKEN)

\* C5: with both variables unset or empty the process prints an error and
\* exits with status 1 before any network call, posts no comment and does not
\* write the log; otherwise GH_PAT, when set, is the token, and GITHUB_TOKEN
\* only when GH_PAT is not.
C5_Credential ==
  /\ (NoCredential /\ pc # "main_start") =>
       /\ pc = "exited" /\ exitStatus = 1
       /\ "Error: GitHub token not found" \in out
       /\ ~netUsed
       /\ attempts = << >> /\ OwnComments(comments) = { }
       /\ file = file0 /\ written = << >> /\ lpc[1] = "idle"
  /\ (~NoCredential /\ pc # "main_start") =>
       /\ "Error: GitHub token not found" \notin out
       /\ Truthy(env.GH_PAT) => token = env.GH_PAT
       /\ ~Truthy(env.GH_PAT) => token = env.GITHUB_TOKEN

\* C5's case: GH_PAT is empty, GITHUB_TOKEN is not set, the process has exited.
C5_Witness ==
  /\ env = [ GH_PAT |-> "", GITHUB_TOKEN |-> None ]
  /\ pc = "exited" /\ exitStatus = 1
  /\ ~netUsed

\* C6: with a credential, the process ends with status 0 whatever the outcome
\* of the identity fetch, the search, the comment and the log file.
C6_ExitZero == (pc = "exited" /\ ~NoCredential) => exitStatus = 0

\* find_good_issues returned to main.
FinderReturned == out \cap { "No suitable issues found", "Found" } # { }

\* C7: in a run of main, no issue found means no comment attempt and an
\* untouched log file; otherwise one comment attempt, on the first issue
\* found, and then one log entry with all the issues found.
C7_RunShape ==
  (pc = "exited" /\ FinderReturned) =>
    IF issues_found = << >>
      THEN /\ attempts = << >>
           /\ file = file0 /\ written = << >> /\ lpc[1] = "idle"
      ELSE /\ attempts = << issues_found[1] >>
           /\ Len(written) = 1
           /\ written[1].issues = issues_found
           /\ JsonLoad(file.data).ok
           /\ JsonLoad(file.data).val = Log0 \o written

====
